---- MODULE Spec2Model ----
(***************************************************************************)
(* The media generation clients of the VideoGenerator scripts and the      *)
(* batch loops that drive them:                                            *)
(*   "gv"       generate_graeber_video.py       (VeniceAPIClient)          *)
(*   "sections" generate_sections.py            (VeniceClient)             *)
(*   "full"     generate_graeber_video_full.py  (VeniceAPIClient)          *)
(* One step of the model is one I/O event of the running script (a POST,   *)
(* a sleep, a GET of a returned URL, a file write) together with all the   *)
(* control flow the code runs up to the next I/O event.                    *)
(***************************************************************************)
EXTENDS Integers, Sequences, FiniteSets, TLC

(***************************************************************************)
(* Bounds of the model.                                                    *)
(***************************************************************************)
\* number of entries of the storyboard the batch loops iterate over
NSections == 2

(***************************************************************************)
(* Text and bytes.  A text is a sequence of one-character strings, a byte  *)
(* string a sequence of integers 0..255.                                   *)
(***************************************************************************)
B64Alphabet ==
  << "A","B","C","D","E","F","G","H","I","J","K","L","M","N","O","P",
     "Q","R","S","T","U","V","W","X","Y","Z","a","b","c","d","e","f",
     "g","h","i","j","k","l","m","n","o","p","q","r","s","t","u","v",
     "w","x","y","z","0","1","2","3","4","5","6","7","8","9","+","/" >>

\* the 6-bit value of an alphabet character
b64index(ch) == (CHOOSE i \in 1..Len(B64Alphabet) : B64Alphabet[i] = ch) - 1

IsB64Char(ch) == \E i \in 1..Len(B64Alphabet) : B64Alphabet[i] = ch

\* binascii.a2b_base64 (non-strict), as base64.b64decode(s) calls it:
\* characters outside the alphabet are dropped, every four 6-bit values give
\* three bytes, "=" ends the data once a quad holds at least two values, and
\* an incomplete quad at the end of the input is an error.
\*   q     number of 6-bit values of the current quad (0..3)
\*   left  bits of the current quad not yet emitted
\*   pads  number of "=" seen since the last data character
RECURSIVE a2b_base64(_, _, _, _, _)
a2b_base64(s, q, left, pads, out) ==
  IF s = << >> THEN [ok |-> (q = 0), bytes |-> IF q = 0 THEN out ELSE << >>]
  ELSE LET ch == Head(s)
           rest == Tail(s)
       IN IF ch = "="
            THEN IF q >= 2 /\ q + pads + 1 >= 4
                   THEN [ok |-> TRUE, bytes |-> out]
                   ELSE a2b_base64(rest, q, left, IF q >= 2 THEN pads + 1 ELSE pads, out)
          ELSE IF ~IsB64Char(ch)
            THEN a2b_base64(rest, q, left, pads, out)
          ELSE LET v == b64index(ch)
               IN CASE q = 0 -> a2b_base64(rest, 1, v, 0, out)
                    [] q = 1 -> a2b_base64(rest, 2, v % 16, 0,
                                           Append(out, left * 4 + v \div 16))
                    [] q = 2 -> a2b_base64(rest, 3, v % 4, 0,
                                           Append(out, left * 16 + v \div 4))
                    [] OTHER -> a2b_base64(rest, 0, 0, 0,
                                           Append(out, left * 64 + v))

\* base64.b64decode(s) with the default validate=False
b64decode(s) == a2b_base64(s, 0, 0, 0, << >>)

\* str.startswith("http")
startswith_http(s) == Len(s) >= 4 /\ SubSeq(s, 1, 4) = << "h","t","t","p" >>

(***************************************************************************)
(* Configuration tables of the three scripts.                              *)
(***************************************************************************)
Scripts == {"gv", "sections", "full"}

\* VeniceAPIClient.generate_image(prompt, model="nano-banana-pro"): the list
\* ends with the caller's model, which generate_assets leaves at its default.
gv_default_model == "nano-banana-pro"

gv_image_models(model) ==
  << "nano-banana-pro", "hidream", "venice-sd35", "qwen-image", "z-image-turbo",
     model >>

\* (model_id, supports_duration)
gv_video_models ==
  << [id |-> "sora-2-pro-text-to-video",    supports_duration |-> TRUE],
     [id |-> "veo3.1-full-text-to-video",   supports_duration |-> TRUE],
     [id |-> "kling-2.6-pro-text-to-video", supports_duration |-> TRUE],
     [id |-> "wan-2.6-text-to-video",       supports_duration |-> TRUE],
     [id |-> "ltx-2-full-text-to-video",    supports_duration |-> TRUE] >>

sections_image_models ==
  << "nano-banana-pro", "hidream", "venice-sd35", "qwen-image" >>

sections_video_models ==
  << "sora-2-pro-text-to-video", "veo3.1-full-text-to-video",
     "kling-2.6-pro-text-to-video", "wan-2.6-text-to-video" >>

full_image_model == "fluently-xl"
full_video_model == "wan-2.5"

\* the identifiers a script's loop for an endpoint walks through, in order
models_to_try(s, endpoint) ==
  CASE s = "gv" /\ endpoint = "image" -> gv_image_models(gv_default_model)
    [] s = "gv" /\ endpoint = "video" ->
         [i \in 1..Len(gv_video_models) |-> gv_video_models[i].id]
    [] s = "sections" /\ endpoint = "image" -> sections_image_models
    [] s = "sections" /\ endpoint = "video" -> sections_video_models
    [] s = "full" /\ endpoint = "image" -> << full_image_model >>
    [] OTHER -> << full_video_model >>

\* time.sleep(15) after a rate-limited response
RATE_LIMIT_WAIT == 15
\* time.sleep between two sections of a batch
GV_SECTION_DELAY == 5
SECTIONS_SECTION_DELAY == 5
FULL_SECTION_DELAY == 2
\* duration: int = 5, the default generate_assets leaves in place
GV_DEFAULT_DURATION == 5

\* the timeout= argument, in seconds, of the requests a script sends: the POST
\* to an endpoint ("image", "video") and the GET of a returned URL ("get");
\* 0 stands for no timeout argument (requests then waits without limit)
request_timeout(s, call) ==
  CASE s = "gv" /\ call = "image" -> 60
    [] s = "gv" /\ call = "video" -> 180
    [] s = "sections" /\ call = "image" -> 60
    [] s = "sections" /\ call = "video" -> 180
    [] s = "full" /\ call = "video" -> 120
    [] s = "test_venice_api" /\ call = "models" -> 30
    [] s = "test_venice_api" /\ call = "image" -> 60
    [] s = "test_venice_api" /\ call = "video" -> 120
    [] OTHER -> 0

(***************************************************************************)
(* Request payloads (the json= argument of requests.post).  fields is the  *)
(* set of keys the payload holds; a key that is absent has value 0 or "".  *)
(***************************************************************************)
NoPayload ==
  [fields |-> {}, model |-> "", prompt |-> "", width |-> 0, height |-> 0,
   duration |-> 0]

gv_image_payload(try_model, p) ==
  [fields |-> {"model", "prompt", "width", "height", "return_binary"},
   model |-> try_model, prompt |-> p, width |-> 1280, height |-> 720,
   duration |-> 0]

\* a faulty variant of gv_video_payload: the duration is left out whatever
\* the flag of the entry says
gv_video_payload_without_duration(entry, p, duration) ==
  [fields |-> {"model", "prompt"},
   model |-> entry.id, prompt |-> p, width |-> 0, height |-> 0,
   duration |-> 0]

gv_video_payload(entry, p, duration) ==
  [fields |-> {"model", "prompt"}
                \cup (IF entry.supports_duration THEN {"duration"} ELSE {}),
   model |-> entry.id, prompt |-> p, width |-> 0, height |-> 0,
   duration |-> IF entry.supports_duration THEN duration ELSE 0]

sections_image_payload(model, p) ==
  [fields |-> {"model", "prompt", "width", "height", "return_binary"},
   model |-> model, prompt |-> p, width |-> 1280, height |-> 720,
   duration |-> 0]

sections_video_payload(model, p, duration) ==
  [fields |-> {"model", "prompt", "duration"},
   model |-> model, prompt |-> p, width |-> 0, height |-> 0,
   duration |-> duration]

full_image_payload(model, p) ==
  [fields |-> {"model", "prompt", "width", "height", "return_binary",
               "hide_watermark"},
   model |-> model, prompt |-> p, width |-> 1920, height |-> 1080,
   duration |-> 0]

full_video_payload(model, p) ==
  [fields |-> {"model", "prompt", "width", "height"},
   model |-> model, prompt |-> p, width |-> 1920, height |-> 1080,
   duration |-> 0]

(***************************************************************************)
(* What the service may answer.  A JSON value is a string (str = TRUE,     *)
(* with its text) or something that is not a string (null, a number, an    *)
(* object).  A body is the parsed JSON object: the keys it holds and their *)
(* values; json = FALSE is a body response.json() cannot parse.            *)
(***************************************************************************)
Str(t) == [str |-> TRUE, text |-> t]
NonString == [str |-> FALSE, text |-> << >>]

Body(keys, images, video, url, videos) ==
  [json |-> TRUE, keys |-> keys, images |-> images, video |-> video,
   url |-> url, videos |-> videos]

EmptyBody == Body({}, << >>, NonString, NonString, << >>)
NotJson == [EmptyBody EXCEPT !.json = FALSE]

\* sample texts: base64 of b"AB", base64 of b"C", the empty string, a text
\* with incomplete padding, and a URL
TextAB == << "Q", "U", "I", "=" >>
TextC == << "Q", "w", "=", "=" >>
TextEmpty == << >>
TextBadPadding == << "Q", "Q" >>
TextUrl == << "h", "t", "t", "p", ":", "/", "/", "v" >>
\* base64 of the three bytes 86 db 69 (hex)
TextHttp == << "h", "t", "t", "p" >>

ImageBodies ==
  { NotJson,
    EmptyBody,
    Body({"images"}, << >>, NonString, NonString, << >>),
    Body({"images"}, << Str(TextEmpty) >>, NonString, NonString, << >>),
    Body({"images"}, << Str(TextAB) >>, NonString, NonString, << >>),
    Body({"images"}, << Str(TextBadPadding) >>, NonString, NonString, << >>),
    Body({"images"}, << Str(TextHttp) >>, NonString, NonString, << >>) }

VideoBodies ==
  { NotJson,
    EmptyBody,
    Body({"video"}, << >>, Str(TextAB), NonString, << >>),
    Body({"video"}, << >>, Str(TextUrl), NonString, << >>),
    Body({"video"}, << >>, Str(TextEmpty), NonString, << >>),
    Body({"video"}, << >>, Str(TextHttp), NonString, << >>),
    Body({"video"}, << >>, NonString, NonString, << >>),
    Body({"url"}, << >>, NonString, Str(TextUrl), << >>),
    Body({"videos"}, << >>, NonString, NonString, << >>),
    Body({"videos"}, << >>, NonString, NonString, << Str(TextC) >>),
    Body({"videos"}, << >>, NonString, NonString, << Str(TextUrl) >>),
    Body({"video", "url"}, << >>, NonString, Str(TextUrl), << >>) }

\* status 0: requests.post raised before any status arrived (connection
\* error, timeout)
NoResp == [status |-> 0, body |-> EmptyBody]
HttpError(code) == [status |-> code, body |-> EmptyBody]
Ok(body) == [status |-> 200, body |-> body]

\* status -1: the server accepted the request and never answers
Silent == [status |-> -1, body |-> EmptyBody]

ErrorResponses ==
  { NoResp, Silent, HttpError(404), HttpError(429), HttpError(500) }

\* what requests.post hands to the client when the server served `served`:
\* with a timeout a server that never answers ends in requests' Timeout
\* exception, like any other failure of the connection
Received(served, timeout) ==
  IF served = Silent /\ timeout > 0 THEN NoResp ELSE served
ImageResponses == ErrorResponses \cup { Ok(b) : b \in ImageBodies }
VideoResponses == ErrorResponses \cup { Ok(b) : b \in VideoBodies }

\* requests.get(url): the body of the answer, whatever its status (the code
\* never calls raise_for_status on it), or an exception
NoGet == [ok |-> FALSE, hang |-> FALSE, content |-> << >>]
\* the server of the URL never answers
NeverAnswers == [ok |-> FALSE, hang |-> TRUE, content |-> << >>]
GetOutcomes == { NoGet, NeverAnswers,
                 [ok |-> TRUE, hang |-> FALSE, content |-> << >>],
                 [ok |-> TRUE, hang |-> FALSE, content |-> << 86 >>] }

\* requests sends a GET only to a URL with a scheme; anything else raises
\* MissingSchema before a request is made
has_scheme(url) ==
  \/ Len(url) >= 7 /\ SubSeq(url, 1, 7) = << "h","t","t","p",":","/","/" >>
  \/ Len(url) >= 8 /\ SubSeq(url, 1, 8) = << "h","t","t","p","s",":","/","/" >>

GetOutcomesFor(url) == IF has_scheme(url) THEN GetOutcomes ELSE { NoGet }

\* what requests.get hands to the client
GetReceived(got, timeout) ==
  IF got.hang /\ timeout > 0 THEN NoGet ELSE got

\* the exception response.raise_for_status() raises for a status
HTTPError(status) ==
  CASE status = 404 -> "HTTPError 404"
    [] status = 429 -> "HTTPError 429"
    [] OTHER -> "HTTPError 500"

None == ""

(***************************************************************************)
(* Decoding of a 200 response.  The result is what the code does next:     *)
(*   return   return bytes                                                 *)
(*   fetch    requests.get(url)                                            *)
(*   raise    an exception err is raised inside the try block              *)
(*   nothing  the try block ends without a return and without an exception*)
(***************************************************************************)
Return(bytes) == [tag |-> "return", bytes |-> bytes, err |-> None, url |-> << >>]
Fetch(url) == [tag |-> "fetch", bytes |-> << >>, err |-> None, url |-> url]
Raise(err) == [tag |-> "raise", bytes |-> << >>, err |-> err, url |-> << >>]
Nothing == [tag |-> "nothing", bytes |-> << >>, err |-> None, url |-> << >>]

\* base64.b64decode(value): a non-string is a TypeError, an undecodable
\* text a binascii.Error
decode_value(v) ==
  IF ~v.str THEN Raise("TypeError")
  ELSE LET d == b64decode(v.text)
       IN IF d.ok THEN Return(d.bytes) ELSE Raise("binascii.Error")

\* requests.get(value).content; a value that is no http URL raises before
\* any request is sent
fetch_value(v) ==
  IF v.str /\ startswith_http(v.text) THEN Fetch(v.text)
  ELSE Raise("MissingSchema")

\* a faulty variant of string_value: a URL is taken for base64 text
string_value_never_fetching(v) == decode_value(v)

\* a string value: a URL is fetched, anything else is base64
string_value(v) ==
  IF startswith_http(v.text) THEN Fetch(v.text) ELSE decode_value(v)

\* if "images" in data and len(data["images"]) > 0: return b64decode(images[0])
images_of(body) ==
  IF ~body.json THEN Raise("JSONDecodeError")
  ELSE IF "images" \in body.keys /\ Len(body.images) > 0
         THEN decode_value(body.images[1])
         ELSE Nothing

\* VeniceAPIClient.generate_video of generate_graeber_video.py: the if/elif
\* chain over "video", "url", "videos"
gv_video_of(body) ==
  IF ~body.json THEN Raise("JSONDecodeError")
  ELSE IF "video" \in body.keys
         THEN IF body.video.str THEN string_value(body.video) ELSE Nothing
  ELSE IF "url" \in body.keys
         THEN fetch_value(body.url)
  ELSE IF "videos" \in body.keys /\ Len(body.videos) > 0
         THEN IF body.videos[1].str THEN string_value(body.videos[1]) ELSE Nothing
  ELSE Raise("No video data in response")

\* VeniceClient.generate_video of generate_sections.py: for key in
\* ["video", "url", "videos"], the first present key holding a string
\* (or a list whose first element is a string) decides
sections_key_value(body, key) ==
  CASE key = "video" -> [ok |-> TRUE, value |-> body.video]
    [] key = "url" -> [ok |-> TRUE, value |-> body.url]
    [] OTHER -> IF Len(body.videos) > 0
                  THEN [ok |-> TRUE, value |-> body.videos[1]]
                  ELSE [ok |-> FALSE, value |-> NonString]

RECURSIVE sections_scan_keys(_, _)
sections_scan_keys(body, keys) ==
  IF keys = << >> THEN Nothing
  ELSE IF Head(keys) \notin body.keys THEN sections_scan_keys(body, Tail(keys))
  ELSE LET kv == sections_key_value(body, Head(keys))
       IN IF ~kv.ok THEN Raise("IndexError")
          ELSE IF kv.value.str THEN string_value(kv.value)
          ELSE sections_scan_keys(body, Tail(keys))

sections_video_of(body) ==
  IF ~body.json THEN Raise("JSONDecodeError")
  ELSE sections_scan_keys(body, << "video", "url", "videos" >>)

\* VeniceAPIClient.generate_video of generate_graeber_video_full.py
full_video_of(body) ==
  IF ~body.json THEN Raise("JSONDecodeError")
  ELSE IF "video" \in body.keys
         THEN IF body.video.str THEN string_value(body.video) ELSE Nothing
  ELSE IF "url" \in body.keys
         THEN fetch_value(body.url)
  ELSE Raise("No video data returned")

(***************************************************************************)
(* The storyboard and the files the batch loops write.                     *)
(***************************************************************************)
VisualTypes == {"image", "video"}

\* the prompt and the duration of the section at 0-based index idx
Prompts == << "P0", "P1", "P2", "P3" >>
PromptOf(idx) == Prompts[idx + 1]
DurationOf(idx) == idx + 3

\* all storyboards of NSections entries
Storyboards ==
  { [i \in 1..NSections |->
       [visual_type |-> vt[i], prompt |-> PromptOf(i - 1),
        duration |-> DurationOf(i - 1)]] :
    vt \in [1..NSections -> VisualTypes] }

\* the ascending sequence of the members of a set of integers: sorted(set(..))
RECURSIVE Sorted(_)
Sorted(S) ==
  IF S = {} THEN << >>
  ELSE LET m == CHOOSE a \in S : \A b \in S : a <= b
       IN << m >> \o Sorted(S \ {m})

NoPath == [dir |-> "", idx |-> -1, ext |-> ""]
\* IMAGES_DIR / f"{i:02d}_{title}.png" and VIDEOS_DIR / f"{i:02d}_{title}.mp4"
ImagePath(idx) == [dir |-> "images", idx |-> idx, ext |-> "png"]
VideoPath(idx) == [dir |-> "videos", idx |-> idx, ext |-> "mp4"]

\* the value a generation call hands back: bytes, or Python's None
Bytes(b) == [some |-> TRUE, bytes |-> b]
NoResult == [some |-> FALSE, bytes |-> << >>]

(***************************************************************************)
(* I/O events.  ev is the last I/O event of the generation call in         *)
(* progress.                                                               *)
(***************************************************************************)
NoEvent ==
  [kind |-> "none", endpoint |-> "", pos |-> 0, retry |-> FALSE,
   payload |-> NoPayload, resp |-> NoResp, got |-> NoGet, url |-> << >>,
   secs |-> 0, timeout |-> 0]

(***************************************************************************)
(* State.                                                                  *)
(***************************************************************************)
VARIABLES
  script,          \* which of the three scripts runs
  storyboard,      \* VIDEO_SCRIPT / ALL_SECTIONS: the sections, in order
  section_indices, \* the 0-based indices the batch loop walks through
  bi,              \* position of the batch loop in section_indices (1-based)
  bpc,             \* batch loop: "loop" or "done"
  attempted,       \* indices for which a generation call was started, in order
  asset_path,      \* section.asset_path of every section (NoPath: None)
  files,           \* the files written: path -> bytes
  delay,           \* seconds the batch loop slept after the last section
  outcomes,        \* how each attempted section ended so far: "saved", "failed"
                   \* (the call raised) or "write_failed" (write_bytes raised)
  kind,            \* the method the batch loop called: "image" or "video"
  prompt,          \* the prompt the batch loop passed
  duration,        \* the duration argument of generate_video
  cpc,             \* where the generation call stands
  pos,             \* position of the running loop in its list (1-based)
  last_error,      \* the local variable last_error of the running method
  ev,              \* the last I/O event of the call
  posted,          \* the POSTs of the call, in order: endpoint, position, model,
                   \* and whether the call returned on the response
  limited,         \* models of the running method whose first response was 429
  image_calls,     \* number of generate_image invocations of the call
  image_prompt,    \* the prompt argument of generate_image
  result,          \* the value the call returned
  raised,          \* the exception that left the call (None: none)
  last_failure,    \* the failure of the latest failed request of generate_image
  sections_arg,    \* parse_section_args: the --sections arguments (texts)
  clips,           \* assemble_video_moviepy: the list clips
  rendered,        \* assemble_video_moviepy: write_videofile was called
  audio_path,      \* assemble_video_moviepy: the argument audio_path
  MOVIEPY_AVAILABLE, \* the import of moviepy succeeded
  tpc,             \* test_venice_api.py: where main stands
  test_log,        \* test_venice_api.py: the requests sent, with their answers
  banner           \* test_venice_api.py: "TESTS COMPLETE!" was printed

batchVars ==
  << script, storyboard, section_indices, bi, bpc, attempted, asset_path,
     files, delay, outcomes >>
callVars ==
  << kind, prompt, duration, cpc, pos, last_error, ev, posted, limited,
     image_calls, image_prompt, result, raised, last_failure >>
toolVars ==
  << sections_arg, clips, rendered, audio_path, MOVIEPY_AVAILABLE, tpc,
     test_log, banner >>
vars == << batchVars, callVars, toolVars >>

Range(f) == { f[i] : i \in DOMAIN f }

PostEvent(endpoint, p, retry, payload, resp) ==
  [NoEvent EXCEPT !.kind = "post", !.endpoint = endpoint,
                  !.pos = p, !.retry = retry, !.payload = payload,
                  !.resp = resp,
                  !.timeout = request_timeout(script, endpoint)]
SleepEvent(endpoint, p, secs) ==
  [NoEvent EXCEPT !.kind = "sleep", !.endpoint = endpoint, !.pos = p,
                  !.secs = secs]
GetEvent(url, got) ==
  [NoEvent EXCEPT !.kind = "get", !.url = url, !.got = got,
                  !.timeout = request_timeout(script, "get")]

\* posted and limited after a POST to identifier m answered with status
Posted(endpoint, m, done) ==
  Append(posted, [endpoint |-> endpoint, pos |-> pos, model |-> m,
                  done |-> done])
Limited(m, status) ==
  IF status = 429 /\ \A k \in DOMAIN posted : posted[k].model # m
    THEN limited \cup {m} ELSE limited

\* posted, with its last POST marked as the one the call returned on
MarkDone(p) == [p EXCEPT ![Len(p)].done = TRUE]

\* a faulty variant of Return_: the result is stored and the loop goes on with the
\* next model instead of returning
Return_not_leaving_the_loop(r, np, nl) ==
  /\ cpc' = IF cpc \in {"image_post", "video_post"} /\ pos < 4
              THEN cpc ELSE "returned"
  /\ pos' = IF cpc \in {"image_post", "video_post"} /\ pos < 4
              THEN pos + 1 ELSE pos
  /\ result' = r
  /\ posted' = np
  /\ limited' = nl
  /\ UNCHANGED << raised, last_error, image_calls, image_prompt >>

\* return r
Return_(r, np, nl) ==
  /\ cpc' = "returned"
  /\ result' = r
  /\ posted' = np
  /\ limited' = nl
  /\ UNCHANGED << pos, raised, last_error, image_calls, image_prompt >>

\* the request never comes back: the call stays inside requests
Block(np, nl) ==
  /\ cpc' = "blocked"
  /\ posted' = np
  /\ limited' = nl
  /\ UNCHANGED << pos, result, raised, last_error, image_calls, image_prompt >>

\* the exception e leaves the call
Propagate(e, np, nl) ==
  /\ cpc' = "raised"
  /\ raised' = e
  /\ posted' = np
  /\ limited' = nl
  /\ UNCHANGED << pos, result, last_error, image_calls, image_prompt >>

\* continue: the for loop goes on with the next list entry
Continue(state, le, np, nl) ==
  /\ cpc' = state
  /\ pos' = pos + 1
  /\ last_error' = le
  /\ posted' = np
  /\ limited' = nl
  /\ UNCHANGED << result, raised, image_calls, image_prompt >>

\* the iteration goes on at the same list entry (a sleep, a retry, a GET)
Goto(state, le, np, nl) ==
  /\ cpc' = state
  /\ last_error' = le
  /\ posted' = np
  /\ limited' = nl
  /\ UNCHANGED << pos, result, raised, image_calls, image_prompt >>

\* self.generate_image(p): the image method starts, with fresh locals
CallGenerateImage(p, np) ==
  /\ cpc' = "image_post"
  /\ pos' = 1
  /\ image_calls' = image_calls + 1
  /\ image_prompt' = p
  /\ last_error' = None
  /\ posted' = np
  /\ limited' = {}
  /\ UNCHANGED << result, raised >>

\* the error of a POST that did not end in a return: the exception raised
\* in the try block, or nodata when the block ended without one
FailureOf(resp, d, nodata) ==
  CASE resp.status = 0 -> "ConnectionError"
    [] resp.status # 200 -> HTTPError(resp.status)
    [] d.tag = "raise" -> d.err
    [] OTHER -> nodata

(***************************************************************************)
(* generate_graeber_video.py: VeniceAPIClient                              *)
(***************************************************************************)
\* what the except clauses do with a failed first attempt: in generate_image
\* 429 sleeps and retries the model, everything else goes on with the next
\* model; in generate_video 429 sleeps and goes on with the next model
gv_on_http_error_sleeping_on_404(status) ==
  IF status \in {404, 429} THEN "sleep" ELSE "continue"

gv_on_http_error(status) == IF status = 429 THEN "sleep" ELSE "continue"

\* a faulty variant of gv_image_continue: the loop skips a list entry
gv_image_continue_skipping(le, np, nl) ==
  IF pos + 1 < Len(gv_image_models(gv_default_model))
    THEN /\ cpc' = "image_post"
         /\ pos' = pos + 2
         /\ last_error' = le
         /\ posted' = np
         /\ limited' = nl
         /\ UNCHANGED << result, raised, image_calls, image_prompt >>
    ELSE Propagate(IF le # None THEN le ELSE "All image models failed", np, nl)

\* a faulty variant of gv_image_continue: a network failure is not caught
gv_image_continue_raising_network(le, np, nl) ==
  IF pos < Len(gv_image_models(gv_default_model)) /\ le # "ConnectionError"
    THEN Continue("image_post", le, np, nl)
    ELSE Propagate(IF le # None THEN le ELSE "All image models failed", np, nl)

\* continue, or the end of the for loop: raise last_error
gv_image_continue(le, np, nl) ==
  IF pos < Len(gv_image_models(gv_default_model))
    THEN Continue("image_post", le, np, nl)
    ELSE Propagate(IF le # None THEN le ELSE "All image models failed", np, nl)

\* one iteration of the loop of generate_image up to its first response
gv_generate_image_post(served) ==
  /\ script = "gv" /\ cpc = "image_post"
  /\ LET resp == Received(served, request_timeout("gv", "image"))
         try_model == gv_image_models(gv_default_model)[pos]
         d == images_of(resp.body)
         e == FailureOf(resp, d, "No image data returned")
         np == Posted("image", try_model, resp.status = 200 /\ d.tag = "return")
         nl == Limited(try_model, resp.status)
     IN /\ ev' = PostEvent("image", pos, FALSE,
                           gv_image_payload(try_model, image_prompt), resp)
        /\ IF resp = Silent
             THEN /\ Block(np, nl)
                  /\ UNCHANGED last_failure
           ELSE IF resp.status = 200 /\ d.tag = "return"
             THEN /\ Return_(Bytes(d.bytes), np, nl)
                  /\ UNCHANGED last_failure
             ELSE /\ last_failure' = e
                  /\ IF resp.status \in {404, 429, 500}
                        /\ gv_on_http_error(resp.status) = "sleep"
                       THEN Goto("image_sleep", e, np, nl)
                       ELSE gv_image_continue(e, np, nl)
  /\ UNCHANGED << batchVars, toolVars, kind, prompt, duration >>

\* time.sleep(15) of generate_image
gv_generate_image_sleep ==
  /\ script = "gv" /\ cpc = "image_sleep"
  /\ ev' = SleepEvent("image", pos, RATE_LIMIT_WAIT)
  /\ Goto("image_retry", last_error, posted, limited)
  /\ UNCHANGED << batchVars, toolVars, kind, prompt, duration, last_failure >>

\* a faulty variant of gv_generate_image_retry: a retry answered with 429 is
\* itself retried once
gv_generate_image_retry_twice(served) ==
  /\ script = "gv" /\ cpc = "image_retry"
  /\ LET resp == Received(served, request_timeout("gv", "image"))
         try_model == gv_image_models(gv_default_model)[pos]
         d == images_of(resp.body)
         e == FailureOf(resp, d, "No image data returned")
         np == Posted("image", try_model, resp.status = 200 /\ d.tag = "return")
         nl == Limited(try_model, resp.status)
         again == /\ resp.status = 429
                  /\ Cardinality({ k \in DOMAIN posted :
                                     /\ posted[k].endpoint = "image"
                                     /\ posted[k].pos = pos }) < 2
     IN /\ ev' = PostEvent("image", pos, TRUE,
                           gv_image_payload(try_model, image_prompt), resp)
        /\ IF resp = Silent
             THEN /\ Block(np, nl)
                  /\ UNCHANGED last_failure
           ELSE IF resp.status = 200 /\ d.tag = "return"
             THEN /\ Return_(Bytes(d.bytes), np, nl)
                  /\ UNCHANGED last_failure
             ELSE /\ last_failure' = e
                  /\ IF again THEN Goto("image_sleep", last_error, np, nl)
                     ELSE gv_image_continue(last_error, np, nl)
  /\ UNCHANGED << batchVars, toolVars, kind, prompt, duration >>

\* the retry of the same model inside the 429 branch; its bare except clause
\* and its missing else both go on with the next model, last_error untouched
gv_generate_image_retry(served) ==
  /\ script = "gv" /\ cpc = "image_retry"
  /\ LET resp == Received(served, request_timeout("gv", "image"))
         try_model == gv_image_models(gv_default_model)[pos]
         d == images_of(resp.body)
         e == FailureOf(resp, d, "No image data returned")
         np == Posted("image", try_model, resp.status = 200 /\ d.tag = "return")
         nl == Limited(try_model, resp.status)
     IN /\ ev' = PostEvent("image", pos, TRUE,
                           gv_image_payload(try_model, image_prompt), resp)
        /\ IF resp = Silent
             THEN /\ Block(np, nl)
                  /\ UNCHANGED last_failure
           ELSE IF resp.status = 200 /\ d.tag = "return"
             THEN /\ Return_(Bytes(d.bytes), np, nl)
                  /\ UNCHANGED last_failure
             ELSE /\ last_failure' = e
                  /\ gv_image_continue(last_error, np, nl)
  /\ UNCHANGED << batchVars, toolVars, kind, prompt, duration >>

\* a faulty variant of gv_video_exhausted: the prompt is not handed on
gv_video_exhausted_other_prompt(np) == CallGenerateImage("P3", np)

\* all video models failed: return self.generate_image(prompt)
gv_video_exhausted(np) == CallGenerateImage(prompt, np)

\* continue, or the end of the for loop: the image fallback
gv_video_continue(le, np, nl) ==
  IF pos < Len(gv_video_models)
    THEN Continue("video_post", le, np, nl)
    ELSE gv_video_exhausted(np)

\* one iteration of the loop of generate_video up to its response
gv_generate_video_post(served) ==
  /\ script = "gv" /\ cpc = "video_post"
  /\ LET resp == Received(served, request_timeout("gv", "video"))
         entry == gv_video_models[pos]
         d == gv_video_of(resp.body)
         np == Posted("video", entry.id, resp.status = 200 /\ d.tag = "return")
         nl == Limited(entry.id, resp.status)
     IN /\ ev' = PostEvent("video", pos, FALSE,
                           gv_video_payload(entry, prompt, duration), resp)
        /\ CASE resp = Silent -> Block(np, nl)
             [] resp.status = 0 ->
                  gv_video_continue("ConnectionError", np, nl)
             [] resp.status \in {404, 429, 500} ->
                  IF gv_on_http_error(resp.status) = "sleep"
                    THEN Goto("video_sleep", HTTPError(resp.status), np, nl)
                    ELSE gv_video_continue(HTTPError(resp.status), np, nl)
             [] resp.status = 200 /\ d.tag = "return" ->
                  Return_(Bytes(d.bytes), np, nl)
             [] resp.status = 200 /\ d.tag = "fetch" ->
                  Goto("video_get", last_error, np, nl)
             [] resp.status = 200 /\ d.tag = "raise" ->
                  gv_video_continue(d.err, np, nl)
             [] OTHER -> gv_video_continue(last_error, np, nl)
  /\ UNCHANGED << batchVars, toolVars, kind, prompt, duration, last_failure >>

\* a faulty variant of gv_generate_video_sleep: the method leaves a file behind
gv_generate_video_sleep_writing_file ==
  /\ script = "gv" /\ cpc = "video_sleep"
  /\ ev' = SleepEvent("video", pos, RATE_LIMIT_WAIT)
  /\ gv_video_continue(last_error, posted, limited)
  /\ files' = files \cup { [path |-> VideoPath(section_indices[bi]),
                             bytes |-> << >>] }
  /\ UNCHANGED << toolVars, script, storyboard, section_indices, bi, bpc, attempted,
                  asset_path, delay, outcomes, kind, prompt, duration,
                  last_failure >>

\* time.sleep(15) of generate_video, then continue: no retry
gv_generate_video_sleep ==
  /\ script = "gv" /\ cpc = "video_sleep"
  /\ ev' = SleepEvent("video", pos, RATE_LIMIT_WAIT)
  /\ gv_video_continue(last_error, posted, limited)
  /\ UNCHANGED << batchVars, toolVars, kind, prompt, duration, last_failure >>

\* requests.get(url) of generate_video: return video_response.content, or
\* the exception lands in except Exception
gv_generate_video_get(got) ==
  /\ script = "gv" /\ cpc = "video_get"
  /\ LET url == gv_video_of(ev.resp.body).url
         r == GetReceived(got, request_timeout("gv", "get"))
     IN /\ got \in GetOutcomesFor(url)
        /\ ev' = GetEvent(url, r)
        /\ IF r.hang THEN Block(posted, limited)
           ELSE IF r.ok
             THEN Return_(Bytes(r.content), MarkDone(posted), limited)
             ELSE gv_video_continue("ConnectionError", posted, limited)
  /\ UNCHANGED << batchVars, toolVars, kind, prompt, duration, last_failure >>

(***************************************************************************)
(* generate_sections.py: VeniceClient                                      *)
(***************************************************************************)
\* if response.status_code == 429: sleep and continue; every other failure
\* lands in except Exception and continues
sections_on_status(status) == IF status = 429 THEN "sleep" ELSE "continue"

\* continue, or the end of the for loop: raise Exception("All image models failed")
sections_image_continue(np, nl) ==
  IF pos < Len(sections_image_models)
    THEN Continue("image_post", last_error, np, nl)
    ELSE Propagate("All image models failed", np, nl)

\* one iteration of the loop of generate_image
sections_generate_image_post(served) ==
  /\ script = "sections" /\ cpc = "image_post"
  /\ LET resp == Received(served, request_timeout("sections", "image"))
         model == sections_image_models[pos]
         d == images_of(resp.body)
         e == FailureOf(resp, d, "No image data returned")
         np == Posted("image", model, resp.status = 200 /\ d.tag = "return")
         nl == Limited(model, resp.status)
     IN /\ ev' = PostEvent("image", pos, FALSE,
                           sections_image_payload(model, image_prompt), resp)
        /\ IF resp = Silent
             THEN /\ Block(np, nl)
                  /\ UNCHANGED last_failure
           ELSE IF resp.status = 200 /\ d.tag = "return"
             THEN /\ Return_(Bytes(d.bytes), np, nl)
                  /\ UNCHANGED last_failure
             ELSE /\ last_failure' = e
                  /\ IF resp.status \in {404, 429, 500}
                        /\ sections_on_status(resp.status) = "sleep"
                       THEN Goto("image_sleep", last_error, np, nl)
                       ELSE sections_image_continue(np, nl)
  /\ UNCHANGED << batchVars, toolVars, kind, prompt, duration >>

\* time.sleep(15) of generate_image, then continue: no retry
sections_generate_image_sleep ==
  /\ script = "sections" /\ cpc = "image_sleep"
  /\ ev' = SleepEvent("image", pos, RATE_LIMIT_WAIT)
  /\ sections_image_continue(posted, limited)
  /\ UNCHANGED << batchVars, toolVars, kind, prompt, duration, last_failure >>

\* all video models failed: return self.generate_image(prompt)
sections_video_exhausted(np) == CallGenerateImage(prompt, np)

sections_video_continue(np, nl) ==
  IF pos < Len(sections_video_models)
    THEN Continue("video_post", last_error, np, nl)
    ELSE sections_video_exhausted(np)

\* one iteration of the loop of generate_video up to its response
sections_generate_video_post(served) ==
  /\ script = "sections" /\ cpc = "video_post"
  /\ LET resp == Received(served, request_timeout("sections", "video"))
         model == sections_video_models[pos]
         d == sections_video_of(resp.body)
         np == Posted("video", model, resp.status = 200 /\ d.tag = "return")
         nl == Limited(model, resp.status)
     IN /\ ev' = PostEvent("video", pos, FALSE,
                           sections_video_payload(model, prompt, duration), resp)
        /\ CASE resp = Silent -> Block(np, nl)
             [] resp.status \in {404, 429, 500}
                  /\ sections_on_status(resp.status) = "sleep" ->
                  Goto("video_sleep", last_error, np, nl)
             [] resp.status = 200 /\ d.tag = "return" ->
                  Return_(Bytes(d.bytes), np, nl)
             [] resp.status = 200 /\ d.tag = "fetch" ->
                  Goto("video_get", last_error, np, nl)
             [] OTHER -> sections_video_continue(np, nl)
  /\ UNCHANGED << batchVars, toolVars, kind, prompt, duration, last_failure >>

\* time.sleep(15) of generate_video, then continue: no retry
sections_generate_video_sleep ==
  /\ script = "sections" /\ cpc = "video_sleep"
  /\ ev' = SleepEvent("video", pos, RATE_LIMIT_WAIT)
  /\ sections_video_continue(posted, limited)
  /\ UNCHANGED << batchVars, toolVars, kind, prompt, duration, last_failure >>

\* return requests.get(video_data).content, inside the try block
sections_generate_video_get(got) ==
  /\ script = "sections" /\ cpc = "video_get"
  /\ LET url == sections_video_of(ev.resp.body).url
         r == GetReceived(got, request_timeout("sections", "get"))
     IN /\ got \in GetOutcomesFor(url)
        /\ ev' = GetEvent(url, r)
        /\ IF r.hang THEN Block(posted, limited)
           ELSE IF r.ok
             THEN Return_(Bytes(r.content), MarkDone(posted), limited)
             ELSE sections_video_continue(posted, limited)
  /\ UNCHANGED << batchVars, toolVars, kind, prompt, duration, last_failure >>

(***************************************************************************)
(* generate_graeber_video_full.py: VeniceAPIClient (one model per call,    *)
(* no loop: whatever fails in generate_image leaves the call)              *)
(***************************************************************************)
full_generate_image_post(served) ==
  /\ script = "full" /\ cpc = "image_post"
  /\ LET resp == Received(served, request_timeout("full", "image"))
         d == images_of(resp.body)
         e == FailureOf(resp, d, "No image data returned from Venice API")
         np == Posted("image", full_image_model, resp.status = 200 /\ d.tag = "return")
         nl == Limited(full_image_model, resp.status)
     IN /\ ev' = PostEvent("image", pos, FALSE,
                           full_image_payload(full_image_model, image_prompt),
                           resp)
        /\ IF resp = Silent
             THEN /\ Block(np, nl)
                  /\ UNCHANGED last_failure
           ELSE IF resp.status = 200 /\ d.tag = "return"
             THEN /\ Return_(Bytes(d.bytes), np, nl)
                  /\ UNCHANGED last_failure
             ELSE /\ last_failure' = e
                  /\ Propagate(e, np, nl)
  /\ UNCHANGED << batchVars, toolVars, kind, prompt, duration >>

\* a faulty variant of full_on_http_error: a 404 is raised like any other status
full_on_http_error_never_falling_back(status) == "raise"

\* except HTTPError: a 404 falls back to generate_image, anything else is
\* raised again
full_on_http_error(status) == IF status = 404 THEN "image" ELSE "raise"

\* generate_video: a 404 falls back to generate_image(prompt), every other
\* exception leaves the call; a "video" value that is no string returns None
full_generate_video_post(served) ==
  /\ script = "full" /\ cpc = "video_post"
  /\ LET resp == Received(served, request_timeout("full", "video"))
         d == full_video_of(resp.body)
         np == Posted("video", full_video_model, resp.status = 200 /\ d.tag = "return")
         nl == Limited(full_video_model, resp.status)
     IN /\ ev' = PostEvent("video", pos, FALSE,
                           full_video_payload(full_video_model, prompt), resp)
        /\ CASE resp = Silent -> Block(np, nl)
             [] resp.status = 0 -> Propagate("ConnectionError", np, nl)
             [] resp.status \in {404, 429, 500} ->
                  IF full_on_http_error(resp.status) = "image"
                    THEN CallGenerateImage(prompt, np)
                    ELSE Propagate(HTTPError(resp.status), np, nl)
             [] d.tag = "return" -> Return_(Bytes(d.bytes), np, nl)
             [] d.tag = "fetch" -> Goto("video_get", last_error, np, nl)
             [] d.tag = "raise" -> Propagate(d.err, np, nl)
             [] OTHER -> Return_(NoResult, np, nl)
  /\ UNCHANGED << batchVars, toolVars, kind, prompt, duration, last_failure >>

\* requests.get(url) of generate_video: its exception is no HTTPError
full_generate_video_get(got) ==
  /\ script = "full" /\ cpc = "video_get"
  /\ LET url == full_video_of(ev.resp.body).url
         r == GetReceived(got, request_timeout("full", "get"))
     IN /\ got \in GetOutcomesFor(url)
        /\ ev' = GetEvent(url, r)
        /\ IF r.hang THEN Block(posted, limited)
           ELSE IF r.ok
             THEN Return_(Bytes(r.content), MarkDone(posted), limited)
             ELSE Propagate("ConnectionError", posted, limited)
  /\ UNCHANGED << batchVars, toolVars, kind, prompt, duration, last_failure >>

(***************************************************************************)
(* The batch loops: generate_assets (generate_graeber_video.py and         *)
(* generate_graeber_video_full.py) and generate_sections.                  *)
(***************************************************************************)
\* the call state between two generation calls
CallIdle ==
  /\ cpc' = "idle"
  /\ kind' = None
  /\ prompt' = None
  /\ duration' = 0
  /\ pos' = 0
  /\ last_error' = None
  /\ ev' = NoEvent
  /\ posted' = << >>
  /\ limited' = {}
  /\ image_calls' = 0
  /\ image_prompt' = None
  /\ result' = NoResult
  /\ raised' = None
  /\ last_failure' = None

\* the duration the batch loop hands to generate_video
DurationArg(section) ==
  CASE script = "gv" -> GV_DEFAULT_DURATION
    [] script = "sections" -> section.duration
    [] OTHER -> 0

\* a faulty variant of skip_invalid: the invalid index counts as a generation
\* call
skip_invalid_attempting ==
  /\ script = "sections" /\ bpc = "loop" /\ cpc = "idle"
  /\ bi <= Len(section_indices)
  /\ section_indices[bi] >= Len(storyboard)
  /\ bi' = bi + 1
  /\ delay' = 0
  /\ attempted' = Append(attempted, section_indices[bi])
  /\ UNCHANGED << toolVars, script, storyboard, section_indices, bpc,
                  asset_path, files, outcomes, callVars >>

\* generate_sections: if idx >= len(ALL_SECTIONS): continue
skip_invalid ==
  /\ script = "sections" /\ bpc = "loop" /\ cpc = "idle"
  /\ bi <= Len(section_indices)
  /\ section_indices[bi] >= Len(storyboard)
  /\ bi' = bi + 1
  /\ delay' = 0
  /\ UNCHANGED << toolVars, script, storyboard, section_indices, bpc, attempted,
                  asset_path, files, outcomes, callVars >>

\* the loop body up to the call of client.generate_image / generate_video
start_section ==
  /\ bpc = "loop" /\ cpc = "idle"
  /\ bi <= Len(section_indices)
  /\ section_indices[bi] < Len(storyboard)
  /\ LET idx == section_indices[bi]
         section == storyboard[idx + 1]
     IN /\ attempted' = Append(attempted, idx)
        /\ kind' = section.visual_type
        /\ prompt' = section.prompt
        /\ duration' = IF section.visual_type = "video"
                         THEN DurationArg(section) ELSE 0
        /\ IF section.visual_type = "image"
             THEN CallGenerateImage(section.prompt, << >>)
             ELSE /\ cpc' = "video_post"
                  /\ pos' = 1
                  /\ UNCHANGED << image_calls, image_prompt, last_error,
                                  posted, limited, result, raised >>
  /\ UNCHANGED << toolVars, script, storyboard, section_indices, bi, bpc, asset_path,
                  files, delay, outcomes, ev, last_failure >>

\* the sleep that ends a successful loop body
SectionDelay ==
  CASE script = "gv" -> GV_SECTION_DELAY
    [] script = "full" -> FULL_SECTION_DELAY
    [] OTHER -> IF bi < Len(section_indices) THEN SECTIONS_SECTION_DELAY ELSE 0

\* a faulty variant of handle_error: an exception of the generation call ends the
\* batch
handle_error_stopping ==
  /\ bpc = "loop" /\ cpc = "raised"
  /\ bi' = Len(section_indices) + 1
  /\ delay' = 0
  /\ outcomes' = Append(outcomes, "failed")
  /\ CallIdle
  /\ UNCHANGED << toolVars, script, storyboard, section_indices, bpc, attempted,
                  asset_path, files >>

\* except Exception as e: print, continue
handle_error ==
  /\ bpc = "loop" /\ cpc = "raised"
  /\ bi' = bi + 1
  /\ delay' = 0
  /\ outcomes' = Append(outcomes, "failed")
  /\ CallIdle
  /\ UNCHANGED << toolVars, script, storyboard, section_indices, bpc, attempted,
                  asset_path, files >>

\* a faulty variant of AssetPath: bytes of the image fallback go to the images
\* directory
AssetPath_by_content(idx) ==
  IF kind = "image" \/ image_calls > 0 THEN ImagePath(idx) ELSE VideoPath(idx)

\* the path the loop body writes to: chosen by section.visual_type alone
AssetPath(idx) ==
  IF kind = "image" THEN ImagePath(idx) ELSE VideoPath(idx)

\* a faulty variant of save_asset: section.asset_path is assigned before
\* write_bytes is called
save_asset_path_first(write_ok) ==
  /\ bpc = "loop" /\ cpc = "returned"
  /\ LET idx == section_indices[bi]
         path == AssetPath(idx)
     IN /\ asset_path' = IF script \in {"gv", "full"}
                           THEN [asset_path EXCEPT ![idx] = path]
                           ELSE asset_path
        /\ IF result.some /\ write_ok
             THEN /\ files' = { f \in files : f.path # path }
                                \cup { [path |-> path, bytes |-> result.bytes] }
                  /\ delay' = SectionDelay
                  /\ outcomes' = Append(outcomes, "saved")
             ELSE /\ delay' = 0
                  /\ outcomes' = Append(outcomes, "write_failed")
                  /\ UNCHANGED files
  /\ bi' = bi + 1
  /\ CallIdle
  /\ UNCHANGED << toolVars, script, storyboard, section_indices, bpc, attempted >>

\* the call returned: write_bytes, asset_path, the sleep; an exception of
\* write_bytes (an OSError, or the TypeError for None) lands in the except
\* clause like any other
save_asset(write_ok) ==
  /\ bpc = "loop" /\ cpc = "returned"
  /\ LET idx == section_indices[bi]
         path == AssetPath(idx)
     IN IF result.some /\ write_ok
          THEN /\ files' = { f \in files : f.path # path }
                             \cup { [path |-> path, bytes |-> result.bytes] }
               /\ asset_path' = IF script \in {"gv", "full"}
                                  THEN [asset_path EXCEPT ![idx] = path]
                                  ELSE asset_path
               /\ delay' = SectionDelay
               /\ outcomes' = Append(outcomes, "saved")
          ELSE /\ delay' = 0
               /\ outcomes' = Append(outcomes, "write_failed")
               /\ UNCHANGED << files, asset_path >>
  /\ bi' = bi + 1
  /\ CallIdle
  /\ UNCHANGED << toolVars, script, storyboard, section_indices, bpc, attempted >>

\* the for loop is over
batch_done ==
  /\ bpc = "loop" /\ cpc = "idle"
  /\ bi > Len(section_indices)
  /\ bpc' = "done"
  /\ UNCHANGED << toolVars, script, storyboard, section_indices, bi, attempted,
                  asset_path, files, delay, outcomes, callVars >>

(***************************************************************************)
(* The specification.                                                      *)
(***************************************************************************)
\* generate_assets walks through the whole script; generate_sections through
\* the indices parse_section_args returns: sorted(set(indices))
SectionIndexLists(s) ==
  IF s = "sections"
    THEN { Sorted(S) : S \in SUBSET (0..NSections) }
    ELSE { [i \in 1..NSections |-> i - 1] }

\* the state of the parts of the repository a script does not run
ToolsIdle ==
  /\ sections_arg = << >>
  /\ clips = << >>
  /\ rendered = FALSE
  /\ audio_path = NoPath
  /\ MOVIEPY_AVAILABLE = TRUE
  /\ tpc = "none"
  /\ test_log = << >>
  /\ banner = FALSE

Init ==
  /\ script \in Scripts
  /\ storyboard \in Storyboards
  /\ section_indices \in SectionIndexLists(script)
  /\ bi = 1
  /\ bpc = "loop"
  /\ attempted = << >>
  /\ asset_path = [idx \in 0..(NSections - 1) |-> NoPath]
  /\ files = {}
  /\ delay = 0
  /\ outcomes = << >>
  /\ cpc = "idle"
  /\ kind = None
  /\ prompt = None
  /\ duration = 0
  /\ pos = 0
  /\ last_error = None
  /\ ev = NoEvent
  /\ posted = << >>
  /\ limited = {}
  /\ image_calls = 0
  /\ image_prompt = None
  /\ result = NoResult
  /\ raised = None
  /\ last_failure = None
  /\ ToolsIdle

Next ==
  \/ start_section
  \/ skip_invalid
  \/ \E write_ok \in BOOLEAN : save_asset(write_ok)
  \/ handle_error
  \/ batch_done
  \/ \E resp \in ImageResponses : gv_generate_image_post(resp)
  \/ gv_generate_image_sleep
  \/ \E resp \in ImageResponses : gv_generate_image_retry(resp)
  \/ \E resp \in VideoResponses : gv_generate_video_post(resp)
  \/ gv_generate_video_sleep
  \/ \E got \in GetOutcomes : gv_generate_video_get(got)
  \/ \E resp \in ImageResponses : sections_generate_image_post(resp)
  \/ sections_generate_image_sleep
  \/ \E resp \in VideoResponses : sections_generate_video_post(resp)
  \/ sections_generate_video_sleep
  \/ \E got \in GetOutcomes : sections_generate_video_get(got)
  \/ \E resp \in ImageResponses : full_generate_image_post(resp)
  \/ \E resp \in VideoResponses : full_generate_video_post(resp)
  \/ \E got \in GetOutcomes : full_generate_video_get(got)

Spec == Init /\ [][Next]_vars

(***************************************************************************)
(* test_venice_api.py: main and its three tests.  An exception of          *)
(* response.json() is a requests.exceptions.JSONDecodeError, which the     *)
(* except RequestException clauses catch.                                  *)
(***************************************************************************)
\* the batch loop and the generation call of a script that has neither
BatchOff ==
  /\ storyboard = << >>
  /\ section_indices = << >>
  /\ bi = 1
  /\ bpc = "done"
  /\ attempted = << >>
  /\ asset_path = << >>
  /\ files = {}
  /\ delay = 0
  /\ outcomes = << >>
CallOff ==
  /\ cpc = "idle"
  /\ kind = None
  /\ prompt = None
  /\ duration = 0
  /\ pos = 0
  /\ last_error = None
  /\ ev = NoEvent
  /\ posted = << >>
  /\ limited = {}
  /\ image_calls = 0
  /\ image_prompt = None
  /\ result = NoResult
  /\ raised = None
  /\ last_failure = None

\* what GET /models may answer: "data" is only printed
KeyResponses ==
  ErrorResponses
    \cup { Ok(NotJson), Ok(EmptyBody),
           Ok(Body({"data"}, << >>, NonString, NonString, << >>)),
           Ok(Body({"data", "object"}, << >>, NonString, NonString, << >>)) }

\* Path("/home/claude/test_image.png")
TestImagePath == [dir |-> "/home/claude", idx |-> 0, ext |-> "png"]

Stage(stage, resp, ok) == [stage |-> stage, resp |-> resp, ok |-> ok]

\* test_api_key, and main's return when it fails
test_api_key(served) ==
  /\ script = "test_venice_api" /\ tpc = "key"
  /\ LET resp == Received(served, request_timeout("test_venice_api", "models"))
         ok == resp.status = 200 /\ resp.body.json
     IN /\ test_log' = Append(test_log, Stage("key", resp, ok))
        /\ tpc' = IF ok THEN "image" ELSE "stopped"
  /\ UNCHANGED << batchVars, callVars, sections_arg, clips, rendered, audio_path,
                  MOVIEPY_AVAILABLE, banner >>

\* test_image_generation, and main's return when it fails; an exception of
\* b64decode or of write_bytes is caught nowhere and ends the script
test_image_generation(served, write_ok) ==
  /\ script = "test_venice_api" /\ tpc = "image"
  /\ LET resp == Received(served, request_timeout("test_venice_api", "image"))
         d == images_of(resp.body)
         decoded == resp.status = 200 /\ d.tag = "return"
         crash == resp.status = 200 /\ resp.body.json
                    /\ (d.tag = "raise" \/ (d.tag = "return" /\ ~write_ok))
         ok == decoded /\ write_ok
     IN /\ test_log' = Append(test_log, Stage("image", resp, ok))
        /\ tpc' = CASE ok -> "video"
                    [] crash -> "crashed"
                    [] OTHER -> "stopped"
        /\ files' = IF ok
                      THEN files \cup { [path |-> TestImagePath, bytes |-> d.bytes] }
                      ELSE files
  /\ UNCHANGED << script, storyboard, section_indices, bi, bpc, attempted,
                  asset_path, delay, outcomes, callVars, sections_arg, clips,
                  rendered, audio_path, MOVIEPY_AVAILABLE,
                  banner >>

\* a faulty variant of test_video_generation: main returns when it fails
test_video_generation_mandatory(served) ==
  /\ script = "test_venice_api" /\ tpc = "video"
  /\ LET resp == Received(served, request_timeout("test_venice_api", "video"))
         ok == resp.status = 200 /\ resp.body.json
     IN /\ test_log' = Append(test_log, Stage("video", resp, ok))
        /\ banner' = ok
        /\ tpc' = IF ok THEN "done" ELSE "stopped"
  /\ UNCHANGED << batchVars, callVars, sections_arg, clips, rendered, audio_path,
                  MOVIEPY_AVAILABLE >>

\* test_video_generation, whose result main ignores, and the banner
test_video_generation(served) ==
  /\ script = "test_venice_api" /\ tpc = "video"
  /\ LET resp == Received(served, request_timeout("test_venice_api", "video"))
         ok == resp.status = 200 /\ resp.body.json
     IN /\ test_log' = Append(test_log, Stage("video", resp, ok))
        /\ banner' = TRUE
        /\ tpc' = "done"
  /\ UNCHANGED << batchVars, callVars, sections_arg, clips, rendered, audio_path,
                  MOVIEPY_AVAILABLE >>

TestInit ==
  /\ script = "test_venice_api"
  /\ BatchOff
  /\ CallOff
  /\ sections_arg = << >>
  /\ clips = << >>
  /\ rendered = FALSE
  /\ audio_path = NoPath
  /\ MOVIEPY_AVAILABLE = TRUE
  /\ tpc = "key"
  /\ test_log = << >>
  /\ banner = FALSE

TestNext ==
  \/ \E served \in KeyResponses : test_api_key(served)
  \/ \E served \in ImageResponses, write_ok \in BOOLEAN :
       test_image_generation(served, write_ok)
  \/ \E served \in VideoResponses : test_video_generation(served)

SpecTest == TestInit /\ [][TestNext]_vars
(***************************************************************************)
(* generate_graeber_video_full.py: assemble_video_moviepy, as main calls   *)
(* it on VIDEO_SCRIPT after generate_assets or after loading the asset     *)
(* paths of an earlier run.  bi is the position of its for loop, outcomes  *)
(* what became of each section: "clip", "missing" or "failed".             *)
(***************************************************************************)
AudioPath == [dir |-> "audio", idx |-> 0, ext |-> "mp3"]
exists(path) == \E f \in files : f.path = path

\* a faulty variant of crossfade_needed: every clip fades in
crossfade_always(cs) == TRUE

\* if clips: clip = clip.crossfadein(0.5)
crossfade_needed(cs) == cs # << >>

\* if not MOVIEPY_AVAILABLE: return; clips = []
assemble_start ==
  /\ script = "full" /\ bpc = "assemble"
  /\ bpc' = IF MOVIEPY_AVAILABLE THEN "clips" ELSE "done"
  /\ clips' = << >>
  /\ UNCHANGED << script, storyboard, section_indices, bi, attempted,
                  asset_path, files, delay, outcomes, callVars, sections_arg,
                  rendered, audio_path, MOVIEPY_AVAILABLE, tpc, test_log,
                  banner >>

\* one iteration of for section in script: the asset check, the clip built
\* from the file (load_ok = FALSE: an exception inside the try block), the
\* crossfade, clips.append(clip)
assemble_section(load_ok) ==
  /\ script = "full" /\ bpc = "clips"
  /\ bi <= Len(storyboard)
  /\ LET idx == bi - 1
         section == storyboard[bi]
     IN IF asset_path[idx] = NoPath \/ ~exists(asset_path[idx])
          THEN /\ outcomes' = Append(outcomes, "missing")
               /\ UNCHANGED clips
          ELSE IF load_ok
            THEN /\ clips' = Append(clips,
                                [idx |-> idx,
                                 visual_type |-> section.visual_type,
                                 file |-> asset_path[idx],
                                 crossfadein |-> crossfade_needed(clips)])
                 /\ outcomes' = Append(outcomes, "clip")
            ELSE /\ outcomes' = Append(outcomes, "failed")
                 /\ UNCHANGED clips
  /\ bi' = bi + 1
  /\ UNCHANGED << script, storyboard, section_indices, bpc, attempted,
                  asset_path, files, delay, callVars, sections_arg, rendered,
                  audio_path, MOVIEPY_AVAILABLE, tpc, test_log, banner >>

\* after the loop: return when clips is empty; else concatenate_videoclips,
\* the audio track when audio_path is given and exists, write_videofile.
\* An exception of concatenate_videoclips or AudioFileClip (lib_ok = FALSE)
\* is caught nowhere and leaves the function before write_videofile.
assemble_finish(lib_ok) ==
  /\ script = "full" /\ bpc = "clips"
  /\ bi > Len(storyboard)
  /\ bpc' = "done"
  /\ IF clips = << >>
       THEN UNCHANGED << rendered, raised >>
       ELSE IF lib_ok
         THEN /\ rendered' = TRUE
              /\ UNCHANGED raised
         ELSE /\ raised' = "Exception"
              /\ UNCHANGED rendered
  /\ UNCHANGED << script, storyboard, section_indices, bi, attempted,
                  asset_path, files, delay, outcomes, kind, prompt, duration,
                  cpc, pos, last_error, ev, posted, limited, image_calls,
                  image_prompt, result, last_failure, sections_arg, clips,
                  audio_path, MOVIEPY_AVAILABLE, tpc, test_log, banner >>

\* the storyboard handed to assemble_video_moviepy, the asset_path each
\* section carries (None, or the path generate_assets and main give it)
\* and the files that exist
AssembleLen == NSections + 1
AssembleStoryboards ==
  { [i \in 1..AssembleLen |->
       [visual_type |-> vt[i], prompt |-> PromptOf(i - 1),
        duration |-> DurationOf(i - 1)]] :
    vt \in [1..AssembleLen -> VisualTypes] }
SectionAsset(sb, idx) ==
  IF sb[idx + 1].visual_type = "image" THEN ImagePath(idx) ELSE VideoPath(idx)
ExistingFiles(sb) ==
  SUBSET { [path |-> p, bytes |-> << >>] :
           p \in { SectionAsset(sb, idx) : idx \in 0..(AssembleLen - 1) }
                   \cup { AudioPath } }

AssembleInit ==
  /\ script = "full"
  /\ storyboard \in AssembleStoryboards
  /\ asset_path \in { ap \in [0..(AssembleLen - 1) -> { NoPath } \cup
                                  { SectionAsset(storyboard, idx) :
                                      idx \in 0..(AssembleLen - 1) }] :
                         \A idx \in DOMAIN ap :
                           ap[idx] \in { NoPath, SectionAsset(storyboard, idx) } }
  /\ files \in ExistingFiles(storyboard)
  /\ audio_path \in { NoPath, AudioPath }
  /\ MOVIEPY_AVAILABLE \in BOOLEAN
  /\ section_indices = << >>
  /\ bi = 1
  /\ bpc = "assemble"
  /\ attempted = << >>
  /\ delay = 0
  /\ outcomes = << >>
  /\ CallOff
  /\ sections_arg = << >>
  /\ clips = << >>
  /\ rendered = FALSE
  /\ tpc = "none"
  /\ test_log = << >>
  /\ banner = FALSE

AssembleNext ==
  \/ assemble_start
  \/ \E load_ok \in BOOLEAN : assemble_section(load_ok)
  \/ \E lib_ok \in BOOLEAN : assemble_finish(lib_ok)

SpecAssemble == AssembleInit /\ [][AssembleNext]_vars

(***************************************************************************)
(* generate_sections.py: parse_section_args, as main calls it on the       *)
(* --sections arguments.  An argument is a text over digits and "-".       *)
(***************************************************************************)
Digits == << "0", "1", "2", "3", "4", "5", "6", "7", "8", "9" >>
IsDigit(ch) == \E i \in 1..Len(Digits) : Digits[i] = ch
DigitValue(ch) == (CHOOSE i \in 1..Len(Digits) : Digits[i] = ch) - 1

\* int(t) for a text of digits and "-": a ValueError (ok = FALSE) for the
\* empty text and for a text that holds a "-" behind its first place or
\* nothing but a "-"; a leading "-" negates
RECURSIVE digits_value(_, _)
digits_value(t, acc) ==
  IF t = << >> THEN acc
  ELSE digits_value(Tail(t), acc * 10 + DigitValue(Head(t)))
int(t) ==
  LET body == IF t # << >> /\ Head(t) = "-" THEN Tail(t) ELSE t
      ok == body # << >> /\ \A i \in DOMAIN body : IsDigit(body[i])
  IN [ok |-> ok,
      value |-> IF ~ok THEN 0
                ELSE IF Head(t) = "-" THEN 0 - digits_value(body, 0)
                ELSE digits_value(body, 0)]

\* '-' in arg
contains_dash(arg) == \E i \in DOMAIN arg : arg[i] = "-"

\* arg.split('-'): the texts between the dashes
RECURSIVE split_dash(_, _)
split_dash(arg, current) ==
  IF arg = << >> THEN << current >>
  ELSE IF Head(arg) = "-" THEN << current >> \o split_dash(Tail(arg), << >>)
  ELSE split_dash(Tail(arg), Append(current, Head(arg)))

\* a faulty variant of arg_range: the end of a range is left out
arg_range_excluding_end(start, end) ==
  [i \in 1..(end - start) |-> start + i - 1]

\* list(range(start, end + 1))
arg_range(start, end) ==
  [i \in 1..(end - start + 1) |-> start + i - 1]

\* the loop over sections_arg: indices, or the ValueError of int() or of the
\* unpacking start, end = ...
RECURSIVE extend_indices(_, _)
extend_indices(args, indices) ==
  IF args = << >> THEN [ok |-> TRUE, indices |-> indices]
  ELSE LET arg == Head(args)
           parts == split_dash(arg, << >>)
       IN IF contains_dash(arg)
            THEN IF Len(parts) = 2 /\ int(parts[1]).ok /\ int(parts[2]).ok
                   THEN extend_indices(Tail(args),
                          indices \o arg_range(int(parts[1]).value,
                                               int(parts[2]).value))
                   ELSE [ok |-> FALSE, indices |-> << >>]
          ELSE IF int(arg).ok
            THEN extend_indices(Tail(args), Append(indices, int(arg).value))
            ELSE [ok |-> FALSE, indices |-> << >>]

\* parse_section_args(sections_arg), then main goes on to generate_sections
parse_section_args ==
  /\ script = "sections" /\ bpc = "args"
  /\ LET r == extend_indices(sections_arg, << >>)
     IN IF r.ok
          THEN /\ section_indices' = Sorted(Range(r.indices))
               /\ bpc' = "loop"
               /\ UNCHANGED raised
          ELSE /\ raised' = "ValueError"
               /\ bpc' = "done"
               /\ UNCHANGED section_indices
  /\ UNCHANGED << script, storyboard, bi, attempted, asset_path, files, delay,
                  outcomes, kind, prompt, duration, cpc, pos, last_error, ev,
                  posted, limited, image_calls, image_prompt, result,
                  last_failure, toolVars >>

\* the arguments: up to MaxArgs texts, each a number, a range, or a text
\* int() or the unpacking of the split rejects
MaxArgs == 2
ArgDigits == {"0", "1", "2", "3"}
ArgTexts ==
  { << d >> : d \in ArgDigits }
    \cup { << a, "-", b >> : a, b \in ArgDigits }
    \cup { << "1", "0" >>, << "0", "1" >>, << "-" >>, << "1", "-" >>,
           << "-", "1" >>, << "1", "-", "2", "-", "3" >> }
ArgLists == UNION { [1..n -> ArgTexts] : n \in 0..MaxArgs }

ArgsInit ==
  /\ script = "sections"
  /\ sections_arg \in ArgLists
  /\ storyboard = << >>
  /\ section_indices = << >>
  /\ bi = 1
  /\ bpc = "args"
  /\ attempted = << >>
  /\ asset_path = << >>
  /\ files = {}
  /\ delay = 0
  /\ outcomes = << >>
  /\ CallOff
  /\ clips = << >>
  /\ rendered = FALSE
  /\ audio_path = NoPath
  /\ MOVIEPY_AVAILABLE = TRUE
  /\ tpc = "none"
  /\ test_log = << >>
  /\ banner = FALSE

ArgsNext == parse_section_args

SpecArgs == ArgsInit /\ [][ArgsNext]_vars

(***************************************************************************)
(* Properties.                                                             *)
(***************************************************************************)
\* the two clients that walk through a list of models
FallbackClients == {"gv", "sections"}

\* what the running client makes of the body of a POST event
Decoded(e) ==
  CASE e.endpoint = "image" -> images_of(e.resp.body)
    [] script = "gv" -> gv_video_of(e.resp.body)
    [] script = "sections" -> sections_video_of(e.resp.body)
    [] OTHER -> full_video_of(e.resp.body)

\* the response of a POST event gave the client a non-empty payload
UsablePost(e) ==
  /\ e.kind = "post"
  /\ e.resp.status = 200
  /\ Decoded(e).tag = "return"
  /\ Decoded(e).bytes # << >>

\* the list positions of an endpoint the call has POSTed to
PositionsTried(endpoint) ==
  { posted[k].pos : k \in { j \in DOMAIN posted : posted[j].endpoint = endpoint } }
AllTried(endpoint) ==
  PositionsTried(endpoint) = 1..Len(models_to_try(script, endpoint))

\* the number of POSTs of the call that named model m
Count(m) == Cardinality({ k \in DOMAIN posted : posted[k].model = m })

\* C1: within one call of generate_image or generate_video of the two
\* fallback clients the POSTs follow the configured list: the first POST goes
\* to position 1, every later POST to the position of the POST before it or
\* to the next one, after a POST the call did not return on; the image list
\* starts only after the last position of the video list; every POST names
\* the model configured at its position.
C1_ConfiguredOrder ==
  script \in FallbackClients =>
    \A k \in DOMAIN posted :
      LET e == posted[k]
          list == models_to_try(script, e.endpoint)
      IN /\ e.pos \in 1..Len(list)
         /\ e.model = list[e.pos]
         /\ IF k = 1
              THEN e.pos = 1 /\ e.endpoint = kind
              ELSE LET d == posted[k - 1]
                   IN /\ ~d.done
                      /\ IF d.endpoint = e.endpoint
                           THEN e.pos \in {d.pos, d.pos + 1}
                           ELSE /\ d.endpoint = "video" /\ e.endpoint = "image"
                                /\ d.pos = Len(models_to_try(script, "video"))
                                /\ e.pos = 1

\* C1 witness: generate_image of generate_graeber_video.py has walked to the
\* last entry of its list, retrying at least one model on the way
C1_Witness ==
  /\ script = "gv" /\ kind = "image"
  /\ Len(posted) > Len(gv_image_models(gv_default_model))
  /\ posted[Len(posted)].pos = Len(gv_image_models(gv_default_model))

\* C2: first success wins.  A POST whose response gives the client a
\* non-empty payload, or a GET of a returned URL that delivers a non-empty
\* body, ends the call at once with exactly that payload; no POST follows the
\* request the call returned on (no later model, no image fallback), and a
\* call whose first request succeeds has sent exactly one POST.
C2_FirstSuccessWins ==
  script \in FallbackClients =>
    /\ \A k \in DOMAIN posted :
         posted[k].done => k = Len(posted) /\ cpc = "returned"
    /\ UsablePost(ev) =>
         /\ cpc = "returned"
         /\ result = Bytes(Decoded(ev).bytes)
         /\ posted[Len(posted)].done
    /\ (ev.kind = "get" /\ ev.got.ok /\ ev.got.content # << >>) =>
         /\ cpc = "returned"
         /\ result = Bytes(ev.got.content)
         /\ posted[Len(posted)].done
    /\ (cpc = "returned" /\ posted[1].done) => Len(posted) = 1

\* C2 witness: the first model answered with a usable payload and the call
\* returned it after a single POST
C2_Witness ==
  /\ script \in FallbackClients
  /\ cpc = "returned"
  /\ Len(posted) = 1
  /\ UsablePost(ev)
  /\ result = Bytes(<< 65, 66 >>)

\* one step of a fallback client after a rate-limited response: the sleep,
\* then the one retry of the same position, then the next position
RateLimitStep ==
  script \in FallbackClients =>
    /\ (ev.kind = "post" /\ ~ev.retry /\ ev.resp.status = 429 /\ ev' # ev) =>
         /\ ev'.kind = "sleep" /\ ev'.secs = RATE_LIMIT_WAIT
         /\ ev'.endpoint = ev.endpoint /\ ev'.pos = ev.pos
    /\ (ev.kind = "sleep" /\ ev' # ev) =>
         /\ ev'.kind = "post" /\ ev'.retry
         /\ ev'.endpoint = ev.endpoint /\ ev'.pos = ev.pos
    /\ (ev.kind = "post" /\ ev.retry /\ ev' # ev /\ ev'.kind = "post") =>
         ~ev'.retry /\ (ev'.endpoint = ev.endpoint => ev'.pos = ev.pos + 1)

\* C3: for every modality a first response 429 for position i is followed by
\* the sleep of the configured interval and then by exactly one more POST for
\* the same position i before any POST for position i + 1, and no second
\* retry of i is made.
C3_RateLimitedRetriesOnce == [][RateLimitStep]_vars

\* C4: when generate_video of a fallback client has seen every configured
\* video model fail it calls generate_image exactly once, with its own
\* prompt; the video call returns what that image call returns and raises
\* only when the image call raises, so a video call never fails without the
\* image path having been run.
C4_VideoFallsBackToImage ==
  (script \in FallbackClients /\ kind = "video") =>
    /\ image_calls \in {0, 1}
    /\ image_calls = 0 <=>
         \/ cpc \in {"video_post", "video_sleep", "video_get"}
         \/ cpc = "blocked"
         \/ cpc = "returned" /\ posted[Len(posted)].endpoint = "video"
    /\ image_calls = 1 =>
         /\ AllTried("video")
         /\ image_prompt = prompt
         /\ (ev.kind = "post" /\ ev.endpoint = "image") =>
              ev.payload.prompt = prompt
    /\ cpc = "raised" => image_calls = 1 /\ AllTried("image")
    /\ (cpc = "returned" /\ image_calls = 1) =>
         /\ ev.kind = "post" /\ ev.endpoint = "image"
         /\ result = Bytes(images_of(ev.resp.body).bytes)

\* C4 witness: every video model of generate_graeber_video.py failed and the
\* video call returned the bytes of the image fallback
C4_Witness ==
  /\ script = "gv" /\ kind = "video"
  /\ cpc = "returned"
  /\ image_calls = 1
  /\ Len(posted) > Len(gv_video_models)
  /\ ev.payload.prompt = prompt

\* one step of a fallback client after a 404 for a position that is not the
\* last of its list
NotFoundStep ==
  ( /\ script \in FallbackClients
    /\ ev.kind = "post" /\ ev.resp.status = 404
    /\ ev.pos < Len(models_to_try(script, ev.endpoint))
    /\ ev' # ev ) =>
    /\ ev'.kind = "post" /\ ~ev'.retry
    /\ ev'.endpoint = ev.endpoint /\ ev'.pos = ev.pos + 1
    /\ Len(posted') = Len(posted) + 1

\* C5: a 404 response for position i of a list is followed directly by the
\* POST for position i + 1 of that list: no sleep and no retry of i between
\* the two.
C5_NotFoundAdvancesAtOnce == [][NotFoundStep]_vars

\* C5 witness: the first image model of generate_graeber_video.py answered
\* 404 and the second POST of the call went to the second model
C5_Witness ==
  /\ script = "gv" /\ kind = "image"
  /\ last_error = HTTPError(404)
  /\ Len(posted) = 2
  /\ posted[2].pos = 2
  /\ ev.kind = "post" /\ ev.pos = 2

\* C6: when every model of the image list failed, the exception the image
\* call raises is the error of the chronologically last failed request of
\* that call.
C6_LastErrorSurfaces ==
  (script \in FallbackClients /\ cpc = "raised") => raised = last_failure

\* C7: a generation call that returns returns a non-empty byte string.
C7_NeverReturnsEmpty ==
  (script \in FallbackClients /\ cpc = "returned") =>
    result.some /\ result.bytes # << >>

\* C8: within one call every model identifier receives at most one POST, or
\* at most two when its first response was 429.
C8_AtMostOneRetry ==
  script \in FallbackClients =>
    \A k \in DOMAIN posted :
      LET m == posted[k].model
      IN Count(m) <= 1 \/ (Count(m) <= 2 /\ m \in limited)

\* the valid indices among the first n selected ones, in list order
ValidPrefix(n) ==
  SelectSeq(SubSeq(section_indices, 1, n), LAMBDA idx : idx < Len(storyboard))

\* C9: in the batch loops the generation call is started once for every
\* selected section, in list order, whatever the sections before it ended
\* with; the loop ends only after the last selected index.
C9_BatchContinues ==
  LET n == IF cpc = "idle" THEN bi - 1 ELSE bi
  IN /\ bi \in 1..(Len(section_indices) + 1)
     /\ attempted = ValidPrefix(n)
     /\ Len(outcomes) = IF cpc = "idle" THEN Len(attempted)
                                        ELSE Len(attempted) - 1
     /\ bpc = "done" =>
          /\ bi = Len(section_indices) + 1
          /\ attempted = ValidPrefix(Len(section_indices))

\* C9 witness: the generation call of the first section raised and the batch
\* went on to attempt the second section
C9_Witness ==
  /\ Len(outcomes) >= 1 /\ outcomes[1] = "failed"
  /\ Len(attempted) >= 2
  /\ attempted[2] = section_indices[2]

\* C10: an exception leaves a generation call of a fallback client only
\* after every model of the image list (and, in a video call, every model of
\* the video list before it) has been tried and none of the requests ended
\* the call with a result.
C10_OnlyExhaustionPropagates ==
  (script \in FallbackClients /\ cpc = "raised") =>
    /\ raised # None
    /\ AllTried("image")
    /\ kind = "video" => AllTried("video")
    /\ \A k \in DOMAIN posted : ~posted[k].done

\* C10 witness: a video call raised after network failures, with both lists
\* walked to their end
C10_Witness ==
  /\ script \in FallbackClients /\ kind = "video"
  /\ cpc = "raised"
  /\ ev.kind = "post" /\ ev.resp = NoResp
  /\ AllTried("video") /\ AllTried("image")

\* C11: every request of a generation call, POST or GET of a returned URL,
\* is sent with a timeout, so that no call stays blocked in a request the
\* server never answers: every call goes on to return or to raise.
C11_EveryRequestTimesOut ==
  /\ ev.kind \in {"post", "get"} => ev.timeout > 0
  /\ cpc # "blocked"

\* the first of the fields video, url, videos a body holds ("": none), and
\* the value found there (the first element for the list videos)
FirstPresent(body) ==
  CASE "video" \in body.keys -> "video"
    [] "url" \in body.keys -> "url"
    [] "videos" \in body.keys -> "videos"
    [] OTHER -> ""
FieldValue(body, key) ==
  CASE key = "video" -> body.video
    [] key = "url" -> body.url
    [] key = "videos" /\ Len(body.videos) > 0 -> body.videos[1]
    [] OTHER -> NonString
RecognizedValue(body) == FieldValue(body, FirstPresent(body))

\* a 200 response whose recognized field holds a URL
CarriesUrl(e) ==
  /\ e.kind = "post" /\ e.endpoint = "video" /\ e.resp.status = 200
  /\ e.resp.body.json
  /\ RecognizedValue(e.resp.body).str
  /\ has_scheme(RecognizedValue(e.resp.body).text)

\* one step of a fallback client after a response that carries a URL, and
\* after the download of that URL
UrlStep ==
  script \in FallbackClients =>
    /\ (CarriesUrl(ev) /\ ev' # ev) =>
         /\ ev'.kind = "get"
         /\ ev'.url = RecognizedValue(ev.resp.body).text
         /\ Len(posted') = Len(posted)
         /\ ev'.got.ok =>
              /\ cpc' = "returned"
              /\ result' = Bytes(ev'.got.content)
    /\ (ev.kind = "get" /\ ev.got.ok /\ ev' # ev) => ev'.kind = "none"

RECURSIVE b64encode(_)
b64encode(b) ==
  LET A(v) == B64Alphabet[v + 1]
  IN CASE Len(b) = 0 -> << >>
       [] Len(b) = 1 ->
            << A(b[1] \div 4), A((b[1] % 4) * 16), "=", "=" >>
       [] Len(b) = 2 ->
            << A(b[1] \div 4), A((b[1] % 4) * 16 + b[2] \div 16),
               A((b[2] % 16) * 4), "=" >>
       [] OTHER ->
            << A(b[1] \div 4), A((b[1] % 4) * 16 + b[2] \div 16),
               A((b[2] % 16) * 4 + b[3] \div 64), A(b[3] % 64) >>
              \o b64encode(SubSeq(b, 4, Len(b)))

\* byte strings the service encodes
SampleBytes == { << >>, << 67 >>, << 65, 66 >>, << 134, 219, 105 >> }

\* a 200 response to e that carries the base64 text of b, in images[0] for
\* an image request and in video for a video request
AnswersWith(e, b) ==
  /\ e.kind = "post" /\ e.resp.status = 200 /\ e.resp.body.json
  /\ \/ /\ e.endpoint = "image"
        /\ e.resp.body.keys = {"images"}
        /\ e.resp.body.images = << Str(b64encode(b)) >>
     \/ /\ e.endpoint = "video"
        /\ e.resp.body.keys = {"video"}
        /\ e.resp.body.video = Str(b64encode(b))

\* C13: when the service answers a request with the base64 encoding of a
\* byte string b, the generation call returns exactly b.
C13_Base64RoundTrip ==
  \A b \in SampleBytes :
    AnswersWith(ev, b) => cpc = "returned" /\ result = Bytes(b)

\* the positions of a generation call that has been entered and has neither
\* returned nor raised
InCall ==
  {"image_post", "image_sleep", "image_retry", "video_post", "video_sleep",
   "video_get", "blocked"}

\* one step seen from the files, the storyboard and its asset_path
FrameStep ==
  /\ cpc \in InCall =>
       UNCHANGED << files, asset_path, storyboard, section_indices >>
  /\ (files' # files \/ asset_path' # asset_path) =>
       cpc = "returned" /\ cpc' = "idle"
  /\ storyboard' = storyboard

\* C14: generate_image and generate_video write no file and change neither
\* the storyboard nor asset_path; files and asset_path change only in the
\* caller's step that follows the return of a call.
C14_CallTouchesNoFile == [][FrameStep]_vars

\* C14 witness: a call has sent several requests and returned, and nothing
\* has been written yet
C14_Witness ==
  /\ cpc = "returned"
  /\ Len(posted) >= 2
  /\ files = {}
  /\ \A idx \in DOMAIN asset_path : asset_path[idx] = NoPath

\* C15: whenever the batch loop is in the generation call of a section that
\* is not the first one it attempted, it has slept after the section before:
\* the delay follows a section that failed as well as one that was saved.
C15_DelayBetweenSections ==
  (cpc \in InCall \cup {"returned", "raised"} /\ Len(attempted) >= 2) =>
    delay > 0

\* C16: every generation request carries the prompt, the model identifier,
\* the width and the height, and every video request the duration as well.
C16_RequestCarriesFields ==
  ev.kind = "post" =>
    /\ {"prompt", "model", "width", "height"} \subseteq ev.payload.fields
    /\ ev.payload.prompt = (IF ev.endpoint = "image" THEN image_prompt ELSE prompt)
    /\ ev.payload.model = models_to_try(script, ev.endpoint)[ev.pos]
    /\ ev.endpoint = "video" => "duration" \in ev.payload.fields

\* C17: the dimensions of every generation request are at most 1280 x 720.
C17_DimensionsCapped ==
  (ev.kind = "post" /\ {"width", "height"} \subseteq ev.payload.fields) =>
    ev.payload.width <= 1280 /\ ev.payload.height <= 720

\* C18: the value a generation call returns holds, next to the bytes, the
\* identifier of the model whose response produced them.
C18_ResultNamesModel ==
  cpc = "returned" =>
    /\ "model" \in DOMAIN result
    /\ result.model = posted[Len(posted)].model

\* a value the client can turn into a result: a URL or decodable base64 text
UsableValue(v) ==
  v.str /\ (startswith_http(v.text) \/ b64decode(v.text).ok)

\* the first of the fields video, url, videos that a body holds with a
\* string value ("": none)
FirstString(body) ==
  CASE "video" \in body.keys /\ FieldValue(body, "video").str -> "video"
    [] "url" \in body.keys /\ FieldValue(body, "url").str -> "url"
    [] "videos" \in body.keys /\ FieldValue(body, "videos").str -> "videos"
    [] OTHER -> ""

\* C19: in a 200 video response the fields video, url, videos are looked at
\* in this order; a result comes from the first of them that holds a string
\* and from no other, and a response in which one of them holds a usable
\* string gives a result for its model.
C19_FirstFieldDecides ==
  ( /\ script \in FallbackClients
    /\ ev.kind = "post" /\ ev.endpoint = "video"
    /\ ev.resp.status = 200 /\ ev.resp.body.json ) =>
    LET body == ev.resp.body
        d == Decoded(ev)
        key == FirstString(body)
    IN /\ d.tag \in {"return", "fetch"} =>
            key # "" /\ d = string_value(FieldValue(body, key))
       /\ (\E k \in body.keys \cap {"video", "url", "videos"} :
               UsableValue(FieldValue(body, k))) =>
            d.tag \in {"return", "fetch"}

\* one step of a fallback client after a rate-limited response
BackoffStep ==
  ( /\ script \in FallbackClients
    /\ ev.kind = "post" /\ ev.resp.status = 429
    /\ ev' # ev /\ ev'.kind # "none" ) =>
    ev'.kind = "sleep" /\ ev'.secs = 15

\* C20: in the fallback loops every response with status 429 is followed by
\* a sleep of 15 seconds before the call sends its next request.
C20_SleepAfterEveryRateLimit == [][BackoffStep]_vars

\* a video request of generate_graeber_video.py carries the duration field
\* exactly when the flag of its configured entry is set, and then with the
\* value of the duration argument
DurationFollowsFlag ==
  (script = "gv" /\ ev.kind = "post" /\ ev.endpoint = "video") =>
    LET entry == gv_video_models[ev.pos]
    IN /\ "duration" \in ev.payload.fields <=> entry.supports_duration
       /\ entry.supports_duration => ev.payload.duration = duration

\* C21 as stated: the duration field follows the flag, and the configured
\* table holds entries with the flag set and entries without it, so that
\* the duration is dropped for some models and kept for others.
C21_DurationDroppedForSome ==
  /\ DurationFollowsFlag
  /\ \E i \in DOMAIN gv_video_models : gv_video_models[i].supports_duration
  /\ \E i \in DOMAIN gv_video_models : ~gv_video_models[i].supports_duration

\* C21 amended: the duration field follows the flag, and the flag is set in
\* every entry of the configured table, so that every video request of
\* generate_graeber_video.py carries the duration.
C21_DurationAlwaysSent ==
  /\ DurationFollowsFlag
  /\ \A i \in DOMAIN gv_video_models : gv_video_models[i].supports_duration
  /\ (script = "gv" /\ ev.kind = "post" /\ ev.endpoint = "video") =>
       /\ "duration" \in ev.payload.fields
       /\ ev.payload.duration = GV_DEFAULT_DURATION

\* C21 witness: the third video model has been sent a request with duration
C21_Witness ==
  /\ script = "gv" /\ ev.kind = "post" /\ ev.endpoint = "video"
  /\ ev.pos = 3
  /\ "duration" \in ev.payload.fields /\ ev.payload.duration = 5

\* one step of generate_assets of generate_graeber_video_full.py that stores
\* the result of a video section
FullStoreStep ==
  (script = "full" /\ kind = "video" /\ cpc = "returned" /\ files' # files) =>
    LET idx == section_indices[bi]
    IN /\ [path |-> VideoPath(idx), bytes |-> result.bytes] \in files'
       /\ asset_path'[idx] = VideoPath(idx)

\* what a video call of generate_graeber_video_full.py has done so far
FullFallback ==
  (script = "full" /\ kind = "video" /\ Len(posted) > 0) =>
    /\ posted[1].endpoint = "video"
    /\ image_calls \in {0, 1}
    /\ image_calls = 1 <=> Len(posted) = 2 \/ cpc = "image_post"
    /\ (ev.kind = "post" /\ ev.endpoint = "video") =>
         (ev.resp.status = 404 <=> cpc = "image_post")
    /\ image_calls = 1 => image_prompt = prompt
    /\ (ev.kind = "post" /\ ev.endpoint = "image") =>
         /\ Len(posted) = 2
         /\ ev.payload.prompt = prompt
         /\ cpc \in {"returned", "raised", "blocked"}
         /\ cpc = "returned" => result = Bytes(images_of(ev.resp.body).bytes)

\* C22: in generate_graeber_video_full.py a video request answered with 404
\* makes generate_video call generate_image once, with the same prompt, and
\* return what it returns; generate_assets writes these bytes as the asset
\* of the video section.
C22_NotFoundFallsBackToImage == []FullFallback /\ [][FullStoreStep]_vars

\* C22 witness: the video request got a 404, the image request delivered
\* and the call returned the image bytes
C22_Witness ==
  /\ script = "full" /\ kind = "video"
  /\ cpc = "returned"
  /\ Len(posted) = 2 /\ image_calls = 1
  /\ result = Bytes(<< 65, 66 >>)

ToText(n) ==
  CASE n < 10 -> << Digits[n + 1] >>
    [] n < 100 -> << Digits[(n \div 10) + 1], Digits[(n % 10) + 1] >>
    [] OTHER -> << Digits[(n \div 100) + 1], Digits[((n \div 10) % 10) + 1],
                   Digits[(n % 10) + 1] >>

\* the integers an argument stands for: n for the text of n, a..b for the
\* text of a, a dash and the text of b
Numbers == 0..15
IsPlain(arg) == \E n \in Numbers : arg = ToText(n)
IsRange(arg) ==
  \E a, b \in 0..5 : arg = ToText(a) \o << "-" >> \o ToText(b)
Contribution(arg) ==
  { n \in Numbers :
      \/ arg = ToText(n)
      \/ \E a, b \in 0..5 :
           /\ arg = ToText(a) \o << "-" >> \o ToText(b)
           /\ a <= n /\ n <= b }

\* C24: for arguments that are numbers n or ranges a-b, parse_section_args
\* returns the union of their contributions (n itself, or every integer
\* from a to b, nothing when a > b) in strictly ascending order, whatever
\* the order and the overlap of the arguments; every list it returns is
\* strictly ascending.
C24_SortedUnion ==
  (script = "sections" /\ bpc = "loop" /\ sections_arg # << >>) =>
    /\ \A i \in 1..(Len(section_indices) - 1) :
         section_indices[i] < section_indices[i + 1]
    /\ (\A k \in DOMAIN sections_arg :
          IsPlain(sections_arg[k]) \/ IsRange(sections_arg[k])) =>
         Range(section_indices) =
           UNION { Contribution(sections_arg[k]) : k \in DOMAIN sections_arg }

\* C24 witness: a range given after a number that lies inside it
C24_Witness ==
  /\ script = "sections" /\ bpc = "loop"
  /\ sections_arg = << << "1" >>, << "0", "-", "2" >> >>
  /\ section_indices = << 0, 1, 2 >>

\* the selected indices that are storyboard positions, in the order selected
ValidSelected ==
  SelectSeq(section_indices, LAMBDA idx : idx < Len(storyboard))
\* the loop stands at an index that is no storyboard position
AtInvalidIndex ==
  /\ script = "sections" /\ bpc = "loop" /\ cpc = "idle"
  /\ bi <= Len(section_indices)
  /\ section_indices[bi] >= Len(storyboard)
InvalidIndexStep ==
  AtInvalidIndex =>
    /\ posted' = posted /\ ev' = ev /\ cpc' = "idle"
    /\ files' = files
    /\ attempted' = attempted
    /\ bi' = bi + 1 /\ bpc' = "loop"
GenerationCalls ==
  script = "sections" =>
    /\ Len(attempted) <= Len(ValidSelected)
    /\ \A k \in DOMAIN attempted : attempted[k] = ValidSelected[k]
    /\ bpc = "done" => attempted = ValidSelected

Rejects(d) == d.tag \in {"raise", "nothing"}
SameDecoding(d1, d2) ==
  IF Rejects(d1) \/ Rejects(d2) THEN Rejects(d1) /\ Rejects(d2)
  ELSE d1.tag = d2.tag /\ d1.bytes = d2.bytes /\ d1.url = d2.url

\* C27: every 200 video response body one of the two fallback clients
\* receives is decoded alike by VeniceAPIClient.generate_video of
\* generate_graeber_video.py and VeniceClient.generate_video of
\* generate_sections.py: both give the same result for the model, or both
\* give none and go on to the next model.
C27_DecodersAgree ==
  ( /\ script \in {"gv", "sections"}
    /\ ev.kind = "post" /\ ev.endpoint = "video"
    /\ ev.resp.status = 200 ) =>
    SameDecoding(gv_video_of(ev.resp.body), sections_video_of(ev.resp.body))

\* the sections whose loop body ended, with how it ended
Processed(idx) == \E k \in DOMAIN outcomes : attempted[k] = idx
Saved(idx) ==
  \E k \in DOMAIN outcomes : attempted[k] = idx /\ outcomes[k] = "saved"
AssetPathState ==
  script \in {"gv", "full"} =>
    \A idx \in DOMAIN asset_path :
      /\ asset_path[idx] # NoPath <=> Saved(idx)
      /\ asset_path[idx] # NoPath =>
           \E f \in files : f.path = asset_path[idx]
AssetPathStep ==
  script \in {"gv", "full"} =>
    \A idx \in DOMAIN asset_path :
      /\ asset_path[idx] # NoPath => asset_path'[idx] = asset_path[idx]
      /\ asset_path'[idx] # asset_path[idx] =>
           /\ cpc = "returned" /\ result.some
           /\ idx = section_indices[bi]
           /\ [path |-> asset_path'[idx], bytes |-> result.bytes] \in files'

\* C28: in generate_assets a section has an asset_path exactly when its loop
\* body ended with the bytes written, and then a file is at that path; a
\* section not processed yet, or whose call or write failed, has None.  The
\* step that sets the asset_path of a section follows a call that returned
\* bytes and writes these bytes to that path, and an asset_path that is set
\* is never changed.
C28_AssetPathAfterWrite == []AssetPathState /\ [][AssetPathStep]_vars

\* C28 witness: the first section failed and has no asset_path, the second
\* one was written and has one
C28_Witness ==
  /\ script \in {"gv", "full"}
  /\ Len(outcomes) = 2
  /\ outcomes[1] # "saved" /\ asset_path[0] = NoPath
  /\ outcomes[2] = "saved" /\ asset_path[1] # NoPath

\* the bytes only the image endpoint hands out in this model: an image
\* response decoded
OnlyFromImage(b) ==
  /\ \E body \in ImageBodies :
       images_of(body).tag = "return" /\ images_of(body).bytes = b
  /\ \A body \in VideoBodies :
       \A d \in {gv_video_of(body), sections_video_of(body)} :
         ~(d.tag = "return" /\ d.bytes = b)
  /\ \A got \in GetOutcomes : ~(got.ok /\ got.content = b)
VideoSectionStep ==
  ( /\ script \in FallbackClients
    /\ bpc = "loop" /\ cpc = "returned" /\ kind = "video"
    /\ files' # files ) =>
    /\ files' = { f \in files : f.path # VideoPath(section_indices[bi]) }
                  \cup { [path |-> VideoPath(section_indices[bi]),
                          bytes |-> result.bytes] }
    /\ storyboard' = storyboard
    /\ storyboard[section_indices[bi] + 1].visual_type = "video"

\* C29: generate_assets and generate_sections write what generate_video
\* returned for a video section to the videos directory under an .mp4 name,
\* whether a video model or the image fallback produced it, and the
\* section's visual_type stays video; no file of the images directory
\* belongs to a video section.
C29_FallbackWrittenAsVideo ==
  /\ [][VideoSectionStep]_vars
  /\ [](script \in FallbackClients =>
          \A f \in files :
            f.path.dir = "images" =>
              storyboard[f.path.idx + 1].visual_type = "image")

\* C29 witness: bytes that only the image endpoint hands out lie in the
\* videos directory under an .mp4 name, for a section whose type is video
C29_Witness ==
  /\ script \in FallbackClients
  /\ \E f \in files :
       /\ f.path.dir = "videos" /\ f.path.ext = "mp4"
       /\ OnlyFromImage(f.bytes)
       /\ storyboard[f.path.idx + 1].visual_type = "video"

\* the POSTs of the running call to an endpoint
PostsTo(endpoint) ==
  Cardinality({ k \in DOMAIN posted : posted[k].endpoint = endpoint })

\* C30: whatever the service answers, one call of the client of
\* generate_graeber_video.py sends at most 12 POSTs to the image endpoint
\* (6 list entries, each with at most one retry after a 429) and at most 5
\* POSTs to the video endpoint, one per configured model, all of them
\* before the image fallback starts.
C30_RequestsBounded ==
  script = "gv" =>
    /\ PostsTo("image") <= 12
    /\ PostsTo("video") <= 5
    /\ \A j, k \in DOMAIN posted :
         (posted[j].endpoint = "video" /\ posted[k].endpoint = "image") => j < k
    /\ \A j, k \in DOMAIN posted :
         (j # k /\ posted[j].endpoint = "video" /\ posted[k].endpoint = "video")
           => posted[j].model # posted[k].model

\* C30 witness: a call of generate_video that sent 5 video POSTs and then,
\* in the image fallback, 12 image POSTs
C30_Witness ==
  /\ script = "gv" /\ kind = "video"
  /\ PostsTo("video") = 5
  /\ PostsTo("image") = 12

\* the sections the loop has passed whose clip was appended, in loop order
RECURSIVE ClipSections(_)
ClipSections(n) ==
  IF n = 0 THEN << >>
  ELSE IF outcomes[n] = "clip" THEN Append(ClipSections(n - 1), n - 1)
  ELSE ClipSections(n - 1)
Assembling == script = "full" /\ bpc \in {"clips", "done"} /\ MOVIEPY_AVAILABLE
AssembledClips ==
  Assembling =>
    /\ Len(outcomes) = bi - 1
    /\ \A n \in DOMAIN outcomes :
         outcomes[n] = "missing" <=>
           (asset_path[n - 1] = NoPath \/ ~exists(asset_path[n - 1]))
    /\ [k \in DOMAIN clips |-> clips[k].idx] = ClipSections(Len(outcomes))
    /\ \A k \in DOMAIN clips :
         /\ clips[k].file = asset_path[clips[k].idx]
         /\ clips[k].visual_type = storyboard[clips[k].idx + 1].visual_type
         /\ clips[k].crossfadein <=> k > 1
RenderedWithClips ==
  script = "full" =>
    /\ rendered => clips # << >>
    /\ (bpc = "done" /\ raised = None) => (rendered <=> clips # << >>)

====
